---- MODULE Spec2Model ----
(***************************************************************************)
(* Model of open_flamingo/eval/evaluate.py: the seeded subset samplers,    *)
(* the demonstration selector, the prompt assembly and the prediction      *)
(* records of the generation path, the last-match search, the candidate    *)
(* scoring and ranking and the accuracy loop of the ImageNet path, and the *)
(* shot/trial sweep of main.                                               *)
(*                                                                         *)
(* Lists are TLA+ sequences (1-based); every index the code computes is    *)
(* kept 0-based, as in the source, and converted where a sequence is read. *)
(***************************************************************************)
EXTENDS Integers, Sequences, FiniteSets, TLC

VARIABLES
    \* process-wide random sources
    npState,        \* state of numpy's global generator (np.random)
    pyState,        \* state of Python's global generator (random)
    \* sampler calls observed so far
    ref,            \* an earlier call kept for comparison
    last,           \* the latest call and what it returned
    \* last-match search (find_sub_list and its use in evaluate_imagenet)
    f_pc, f_sl, f_l, f_idxes, f_from, f_scored,
    \* evaluate_imagenet
    im_pc, im_args, im_i, acc1, acc5, im_flags, im_ret,
    \* scoring of one item of evaluate_imagenet (candidate loop and ranking)
    sc_pc,          \* position in the body of the item loop
    sc_case,        \* how the tokenizer splits this item's texts
    sc_class_name,  \* batch["class_name"], the ground-truth label
    sc_lang,        \* lang_x["input_ids"] of every candidate run so far
    sc_gen,         \* gen_probs of every candidate run so far
    sc_overall,     \* overall_probs, one joint score per candidate scored
    sc_ranking,     \* np.argsort(...)[::-1], class ids by descending score
    sc_top5,        \* top5, the labels of the first five of the ranking
    \* generation path (evaluate_captioning / evaluate_vqa)
    g_pc, g_args, g_pos, test_subset, in_context_samples,
    batch_demo_samples, batch_images, batch_text,
    predictions,    \* the predictions collected by the batch loop
    results_file,   \* the records written for the scorer
    \* main
    m_pc, args, seeds0, cur, scores, results, calls, failed

rngVars  == <<npState, pyState>>
sampVars == <<ref, last>>
findVars == <<f_pc, f_sl, f_l, f_idxes, f_from, f_scored>>
imVars   == <<im_pc, im_args, im_i, acc1, acc5, im_flags, im_ret>>
scoreVars == <<sc_pc, sc_case, sc_class_name, sc_lang, sc_gen, sc_overall,
               sc_ranking, sc_top5>>
genVars  == <<g_pc, g_args, g_pos, test_subset, in_context_samples,
              batch_demo_samples, batch_images, batch_text, predictions,
              results_file>>
mainVars == <<m_pc, args, seeds0, cur, scores, results, calls, failed>>
vars     == <<rngVars, sampVars, findVars, imVars, scoreVars, genVars, mainVars>>

-----------------------------------------------------------------------------
(* Bounds of the model *)

RngMod == 4         \* size of the modelled generator state space
MaxData == 3        \* largest dataset (pool) size
MaxBatch == 2       \* largest batch_size of a selector call
MaxL == 5           \* longest token sequence searched
MaxP == 2           \* longest prefix searched for
MaxVal == 5         \* largest ImageNet validation set
MaxBudget == 5      \* largest num_samples of evaluate_imagenet
NumClasses == 3     \* size of the label vocabulary
MaxShots == 2       \* longest --shots list
MaxTrials == 3      \* largest --num_trials
MaxSeeds == 2       \* longest --trial_seeds list given
MaxEnabled == 2     \* most --eval_* flags set at once
NumCandidates == 6  \* candidate labels scored per item of evaluate_imagenet

Seeds == {7, 42}
DataSizes == 2..MaxData
Counts == 1..(MaxData + 1)

-----------------------------------------------------------------------------
(* Generic helpers *)

Min(a, b) == IF a < b THEN a ELSE b
Max(a, b) == IF a > b THEN a ELSE b

Range(s) == {s[i] : i \in 1..Len(s)}

\* Python slice s[a:b] for 0 <= a, with b clipped to len(s)
Slice(s, a, b) ==
    LET hi == Min(b, Len(s))
    IN  IF a >= hi THEN <<>> ELSE [i \in 1..(hi - a) |-> s[a + i]]

RECURSIVE SeqSum(_)
SeqSum(s) == IF s = <<>> THEN 0 ELSE Head(s) + SeqSum(Tail(s))

SeqsUpTo(S, n) == UNION {[1..k -> S] : k \in 0..n}

IsPrefix(p, s) == Len(p) <= Len(s) /\ \A i \in 1..Len(p) : p[i] = s[i]

-----------------------------------------------------------------------------
(* The random sources.  Both generators are library code; each is modelled  *)
(* as a deterministic generator over a small state space: seeding fixes the *)
(* state, every draw reads the state and advances it.                       *)

RngNext(s) == (13 * s + 3) % RngMod

\* np.random.seed(seed)
NpSeed(seed) == seed % RngMod

\* numpy shuffle: for i = n-1 down to 1, swap arr[i] with arr[j], j drawn in 0..i
RECURSIVE Shuffle(_, _, _)
Shuffle(arr, i, s) ==
    IF i < 1 THEN [val |-> arr, st |-> s]
    ELSE LET s1 == RngNext(s)
             j  == s1 % (i + 1)
         IN  Shuffle([arr EXCEPT ![i + 1] = arr[j + 1], ![j + 1] = arr[i + 1]],
                     i - 1, s1)

\* np.random.permutation(n): a shuffled arange(n)
NpPermutation(s, n) == Shuffle([x \in 1..n |-> x - 1], n - 1, s)

\* k draws with replacement in 0..n-1
RECURSIVE DrawRepl(_, _, _, _)
DrawRepl(s, n, k, acc) ==
    IF k <= 0 THEN [val |-> acc, st |-> s]
    ELSE LET s1 == RngNext(s)
         IN  DrawRepl(s1, n, k - 1, Append(acc, s1 % n))

\* np.random.choice(n, k, replace=...): without replacement it is the first k
\* entries of permutation(n) and raises ValueError when k > n.
NpChoice(s, n, k, replace) ==
    IF replace
    THEN LET d == DrawRepl(s, n, k, <<>>)
         IN  [val |-> d.val, err |-> FALSE, st |-> d.st]
    ELSE IF k > n
         THEN [val |-> <<>>, err |-> TRUE, st |-> s]
         ELSE LET p == NpPermutation(s, n)
              IN  [val |-> Slice(p.val, 0, k), err |-> FALSE, st |-> p.st]

\* random.sample(population, k): raises ValueError when k > len(population);
\* otherwise k picks from a shrinking pool, the picked slot refilled from the end.
RECURSIVE SamplePick(_, _, _, _)
SamplePick(pool, k, s, acc) ==
    IF k <= 0 THEN [val |-> acc, st |-> s]
    ELSE LET n  == Len(pool)
             s1 == RngNext(s)
             j  == s1 % n
             moved == [pool EXCEPT ![j + 1] = pool[n]]
         IN  SamplePick(SubSeq(moved, 1, n - 1), k - 1, s1, Append(acc, pool[j + 1]))

PySampleClamped(s, population, k) ==
    LET r == SamplePick(population, Min(k, Len(population)), s, <<>>)
    IN  [val |-> r.val, err |-> FALSE, st |-> r.st]

PySample(s, population, k) ==
    IF k > Len(population)
    THEN [val |-> <<>>, err |-> TRUE, st |-> s]
    ELSE LET r == SamplePick(population, k, s, <<>>)
         IN  [val |-> r.val, err |-> FALSE, st |-> r.st]

-----------------------------------------------------------------------------
(* Subset samplers and demonstration selector (evaluate.py 333-360).  A     *)
(* dataset of n items is the list of its indices 0..n-1, so the Samples a   *)
(* call returns are named by their index.                                   *)

\* get_random_indices(num_samples, query_set_size, full_dataset, seed)
get_random_indices(st, num_samples, query_set_size, n, seed) ==
    IF num_samples + query_set_size > n
    THEN [val |-> <<>>, err |-> TRUE, st |-> st]
    ELSE NpChoice(NpSeed(seed), n, num_samples + query_set_size, FALSE)

get_query_set_unseeded(st, n, query_set_size, seed) ==
    NpChoice(st, n, query_set_size, FALSE)

\* get_query_set(train_dataset, query_set_size, seed)
get_query_set(st, n, query_set_size, seed) ==
    NpChoice(NpSeed(seed), n, query_set_size, FALSE)

prepare_eval_samples_repl(st, n, num_samples, seed) ==
    NpChoice(NpSeed(seed), n, num_samples, TRUE)

\* prepare_eval_samples(test_dataset, num_samples, seed)
prepare_eval_samples(st, n, num_samples, seed) ==
    NpChoice(NpSeed(seed), n, num_samples, FALSE)

\* sample_batch_demos_from_query_set(query_set, num_samples, batch_size)
RECURSIVE sample_batch_demos_from_query_set(_, _, _, _)
sample_batch_demos_from_query_set(st, query_set, num_samples, batch_size) ==
    IF batch_size <= 0 THEN [val |-> <<>>, err |-> FALSE, st |-> st]
    ELSE LET one == PySample(st, query_set, num_samples)
         IN  IF one.err THEN [val |-> <<>>, err |-> TRUE, st |-> st]
             ELSE LET rest == sample_batch_demos_from_query_set(
                                  one.st, query_set, num_samples, batch_size - 1)
                  IN  [val |-> <<one.val>> \o rest.val, err |-> rest.err,
                       st |-> rest.st]

\* context_indices = np.random.choice(len(train_dataset), effective_num_shots,
\* replace=False) in evaluate_imagenet: drawn from the current state, not reseeded
context_choice(st, n, k) == NpChoice(st, n, k, FALSE)

-----------------------------------------------------------------------------
(* Idle values of each group of variables, for the specifications that do   *)
(* not exercise that part of the program.                                   *)

\* a sampler call: its arguments and its outcome (the indices returned, or err
\* when it raised), with two history flags: rep, the call repeats the arguments
\* of the call remembered in ref; moved, numpy's generator was not in the state
\* seeding with this call's seed gives when the call was entered
NoCall == [fn |-> "none", n |-> 0, k |-> 0, seed |-> 0, val |-> <<>>,
           err |-> FALSE, rep |-> FALSE, moved |-> FALSE]

RngIdle  == npState = 0 /\ pyState = 0
SampIdle == ref = NoCall /\ last = NoCall
FindIdle == /\ f_pc = "idle" /\ f_sl = <<>> /\ f_l = <<>>
            /\ f_idxes = <<>> /\ f_from = 0 /\ f_scored = <<>>
ImIdle   == /\ im_pc = "idle" /\ im_args = [num_samples |-> 0] /\ im_i = 0
            /\ acc1 = 0 /\ acc5 = 0 /\ im_flags = <<>> /\ im_ret = <<0, 1>>
ScoreIdle == /\ sc_pc = "idle" /\ sc_case = "none" /\ sc_class_name = <<>>
             /\ sc_lang = <<>> /\ sc_gen = <<>> /\ sc_overall = <<>>
             /\ sc_ranking = <<>> /\ sc_top5 = <<>>
GenIdle  == /\ g_pc = "idle" /\ g_args = [num_shots |-> 0] /\ g_pos = 0
            /\ test_subset = <<>> /\ in_context_samples = <<>>
            /\ batch_demo_samples = <<>> /\ batch_images = <<>> /\ batch_text = <<>>
            /\ predictions = <<>> /\ results_file = <<>>
MainIdle == /\ m_pc = "idle" /\ args = [num_trials |-> 0] /\ seeds0 = <<>>
            /\ cur = [task |-> 0] /\ scores = <<>> /\ results = <<>>
            /\ calls = <<>> /\ failed = 0

-----------------------------------------------------------------------------
(* Specification of the samplers: any sequence of calls of the three seeded *)
(* samplers, the demonstration selector and the unseeded context draw, from *)
(* an arbitrary prior state of both generators.                             *)

\* what a sampler call leaves alone
SamplerFrame == UNCHANGED <<findVars, imVars, scoreVars, genVars, mainVars>>

Call(fn, n, k, seed, r) ==
    [fn |-> fn, n |-> n, k |-> k, seed |-> seed, val |-> r.val, err |-> r.err,
     rep |-> (ref.fn = fn /\ ref.n = n /\ ref.k = k /\ ref.seed = seed),
     moved |-> (npState # NpSeed(seed))]

\* the call just made may be kept as the earlier call later ones are compared to
Remember ==
    \/ ref' = ref
    \/ /\ last'.fn \in {"get_query_set", "prepare_eval_samples"}
       /\ ~last'.err
       /\ ref' = [last' EXCEPT !.rep = FALSE, !.moved = FALSE]

CallGetQuerySet ==
    \E n \in DataSizes, k \in Counts, seed \in Seeds :
        LET r == get_query_set(npState, n, k, seed)
        IN  /\ npState' = r.st
            /\ last' = Call("get_query_set", n, k, seed, r)
            /\ Remember
            /\ UNCHANGED pyState
            /\ SamplerFrame

CallPrepareEvalSamples ==
    \E n \in DataSizes, k \in Counts, seed \in Seeds :
        LET r == prepare_eval_samples(npState, n, k, seed)
        IN  /\ npState' = r.st
            /\ last' = Call("prepare_eval_samples", n, k, seed, r)
            /\ Remember
            /\ UNCHANGED pyState
            /\ SamplerFrame

CallGetRandomIndices ==
    \E n \in DataSizes, ns \in 1..MaxData, qs \in 1..2, seed \in Seeds :
        LET r == get_random_indices(npState, ns, qs, n, seed)
        IN  /\ npState' = r.st
            /\ last' = Call("get_random_indices", n, ns + qs, seed, r)
            /\ Remember
            /\ UNCHANGED pyState
            /\ SamplerFrame

\* a selector call in between: moves Python's generator only
CallSampleBatchDemos ==
    \E n \in DataSizes, k \in Counts, b \in {1, MaxBatch} :
        LET r == sample_batch_demos_from_query_set(
                     pyState, [x \in 1..n |-> x - 1], k, b)
        IN  /\ pyState' = r.st
            /\ UNCHANGED <<npState, ref, last>>
            /\ SamplerFrame

\* an unseeded numpy draw in between (evaluate_imagenet's context draw)
CallContextChoice ==
    \E n \in DataSizes, k \in Counts :
        LET r == context_choice(npState, n, k)
        IN  /\ npState' = r.st
            /\ UNCHANGED <<pyState, ref, last>>
            /\ SamplerFrame

SamplerInit ==
    /\ npState \in 0..(RngMod - 1)
    /\ pyState \in 0..(RngMod - 1)
    /\ SampIdle /\ FindIdle /\ ImIdle /\ GenIdle /\ MainIdle /\ ScoreIdle

SamplerNext ==
    \/ CallGetQuerySet
    \/ CallPrepareEvalSamples
    \/ CallGetRandomIndices
    \/ CallSampleBatchDemos
    \/ CallContextChoice

SpecSampler == SamplerInit /\ [][SamplerNext]_vars

-----------------------------------------------------------------------------
(* Claims about the samplers, checked under SpecSampler *)

SameArgs(a, b) == a.fn = b.fn /\ a.n = b.n /\ a.k = b.k /\ a.seed = b.seed

\* C1: a query pool drawn by get_query_set(D, q, s) and an evaluation subset
\* drawn by prepare_eval_samples(D, n, s) from the same dataset D with the same
\* seed s, q + n <= |D|, never share an index.
C1_Disjoint ==
    ( /\ ref.fn = "prepare_eval_samples" /\ last.fn = "get_query_set"
      /\ ~last.err
      /\ ref.n = last.n /\ ref.seed = last.seed
      /\ ref.k + last.k <= ref.n )
    => Range(ref.val) \cap Range(last.val) = {}

\* C2: a call of get_query_set or prepare_eval_samples with the arguments of an
\* earlier call returns the index sequence the earlier call returned, whatever
\* sampler, selector and context calls moved the generators in between.
C2_Deterministic ==
    (ref.fn # "none" /\ SameArgs(ref, last)) => (~last.err /\ last.val = ref.val)

\* C2 witness: a second get_query_set call with the remembered arguments, entered
\* with the generator moved away from the seeded state, has returned the
\* remembered subset of two or more indices
C2_Witness ==
    /\ ref.fn = "get_query_set" /\ SameArgs(ref, last)
    /\ last.rep /\ last.moved
    /\ Len(last.val) >= 2 /\ last.val = ref.val

\* C3: whenever the requested count exceeds the pool size, the draw raises and
\* yields no subset: get_query_set, prepare_eval_samples and the joint draw of
\* get_random_indices (num_samples + query_set_size > dataset size).
C3_Bounds ==
    (last.fn # "none" /\ last.k > last.n) => (last.err /\ last.val = <<>>)

\* C3 witness: an over-sized request of the evaluation-subset draw has failed
C3_Witness ==
    last.fn = "prepare_eval_samples" /\ last.k = last.n + 1 /\ last.err

-----------------------------------------------------------------------------
(* Last-match search of the likelihood path (evaluate.py 651-657, 757-763) *)

\* the start positions find_sub_list visits: every i with l[i] == sl[0]
FirstTokenHits(sl, l) ==
    SelectSeq([i \in 1..Len(l) |-> i - 1], LAMBDA ind : l[ind + 1] = sl[1])

find_sub_list_unverified(sl, l) ==
    LET hits == FirstTokenHits(sl, l)
    IN  [h \in 1..Len(hits) |-> hits[h] + Len(sl) - 1]

\* find_sub_list(sl, l): for every hit where l[ind : ind + sll] == sl, in
\* ascending order, ind + sll - 1
find_sub_list(sl, l) ==
    LET sll  == Len(sl)
        hits == SelectSeq(FirstTokenHits(sl, l),
                          LAMBDA ind : Slice(l, ind, ind + sll) = sl)
    IN  [h \in 1..Len(hits) |-> hits[h] + sll - 1]

\* idxes[-1] + 1, the first scored position of input_probs[idxes[-1] + 1 :]
score_from(idxes) == idxes[Len(idxes)] + 1

\* Inputs: prefixes and token sequences over a few token ids, and the sequence
\* [5,6,7,5,6,7,9] with prefix [5,6,7]
FindTokens == {5, 6, 9}
PrefixTokens == {5, 6}
FindInputs ==
    {<<sl, l>> : sl \in (SeqsUpTo(PrefixTokens, MaxP) \ {<<>>}),
                 l \in SeqsUpTo(FindTokens, MaxL)}
    \cup {<< <<5, 6, 7>>, <<5, 6, 7, 5, 6, 7, 9>> >>}

\* lines 759-763 for one input sentence: search, then slice at idxes[-1] + 1;
\* idxes[-1] raises IndexError when nothing matched.  input_probs is aligned
\* with input_sentence, so f_scored names the scored positions by the tokens
\* of f_l that stand there
ScoreCandidate ==
    /\ f_pc = "ready"
    /\ LET idxes == find_sub_list(f_sl, f_l)
       IN  /\ f_idxes' = idxes
           /\ IF idxes = <<>>
              THEN f_pc' = "error" /\ f_from' = 0 /\ f_scored' = <<>>
              ELSE /\ f_pc' = "done"
                   /\ f_from' = score_from(idxes)
                   /\ f_scored' = Slice(f_l, score_from(idxes), Len(f_l))
    /\ UNCHANGED <<f_sl, f_l>>
    /\ UNCHANGED <<rngVars, sampVars, imVars, scoreVars, genVars, mainVars>>

FindInit ==
    /\ \E in \in FindInputs : f_sl = in[1] /\ f_l = in[2]
    /\ f_pc = "ready" /\ f_idxes = <<>> /\ f_from = 0 /\ f_scored = <<>>
    /\ RngIdle /\ SampIdle /\ ImIdle /\ GenIdle /\ MainIdle /\ ScoreIdle

FindNext == ScoreCandidate

SpecFind == FindInit /\ [][FindNext]_vars

(* Claims about the search, checked under SpecFind *)

\* 0-based start positions at which sl occurs in l as a contiguous subsequence
Occurrences(sl, l) ==
    {i \in 0..(Len(l) - Len(sl)) : \A j \in 1..Len(sl) : l[i + j] = sl[j]}

SetMax(S) == CHOOSE x \in S : \A y \in S : y <= x

LastStart(sl, l) == SetMax(Occurrences(sl, l))

\* C5 as stated: when P occurs in L, the index the search returns (the last
\* entry of its result) is the start index of the last occurrence of P in L,
\* and the scored tokens are the tokens of L after that occurrence.
C5_ReturnsLastStart ==
    (f_pc # "ready" /\ Occurrences(f_sl, f_l) # {}) =>
        /\ f_pc = "done"
        /\ f_idxes[Len(f_idxes)] = LastStart(f_sl, f_l)
        /\ f_scored = Slice(f_l, LastStart(f_sl, f_l) + Len(f_sl), Len(f_l))

\* C5 amended: when P occurs in L, the index the search returns is the index of
\* the last token of the last occurrence of P in L (its start + |P| - 1), and
\* the scored tokens are exactly the tokens of L after that occurrence,
\* beginning at index start + |P|.
C5_ReturnsLastEnd ==
    (f_pc # "ready" /\ Occurrences(f_sl, f_l) # {}) =>
        /\ f_pc = "done"
        /\ f_idxes[Len(f_idxes)] = LastStart(f_sl, f_l) + Len(f_sl) - 1
        /\ f_from = LastStart(f_sl, f_l) + Len(f_sl)
        /\ f_scored = Slice(f_l, LastStart(f_sl, f_l) + Len(f_sl), Len(f_l))

\* C5 witness: L = [5,6,7,5,6,7,9], P = [5,6,7]: the search returned [2, 5],
\* the last occurrence starts at 3 and the scored tokens begin at index 6
C5_Witness ==
    /\ f_pc = "done"
    /\ f_sl = <<5, 6, 7>> /\ f_l = <<5, 6, 7, 5, 6, 7, 9>>
    /\ f_idxes = <<2, 5>> /\ LastStart(f_sl, f_l) = 3
    /\ f_from = 6 /\ f_scored = <<9>>

-----------------------------------------------------------------------------
(* evaluate_imagenet (evaluate.py 660-782).  The model's forward pass and   *)
(* the tokenizer are inputs: per item, the joint scores of the candidate    *)
(* labels and the tokenized prefix / full text handed to find_sub_list.     *)

TopK == 5
Classes == 1..NumClasses
ProbLevels == {1, 2}

\* tokenized (prompt_text, context_text + target_text) pairs: the prefix occurs
\* twice (in a demonstration and in the query), once, or not at all
AlignCases ==
    { << <<5, 6>>, <<5, 6, 9, 5, 6, 9>> >>,
      << <<5, 6>>, <<6, 9, 5, 6, 9>> >>,
      << <<5, 6>>, <<5, 9, 6, 9>> >> }

Perms(S) == {f \in [1..Cardinality(S) -> S] : \A x \in S : \E i \in DOMAIN f : f[i] = x}

\* np.argsort(probs): the class ids in an order of non-decreasing score; the
\* order of equal scores is left to the sort
ArgSorts(probs) ==
    {o \in Perms(Classes) : \A i \in 1..(NumClasses - 1) : probs[o[i]] <= probs[o[i + 1]]}

Reverse(s) == [i \in 1..Len(s) |-> s[Len(s) + 1 - i]]

\* top5: np.argsort(...)[::-1][:5]
Top5Of(order) == Slice(Reverse(order), 0, TopK)

\* effective_num_shots = num_shots if num_shots > 0 else 2
effective_num_shots(num_shots) == IF num_shots > 0 THEN num_shots ELSE 2

Budgets == (0 - 1)..MaxBudget

ImagenetFrame == UNCHANGED <<sampVars, findVars, scoreVars, genVars, mainVars>>

\* if batch["class_name"] == top5[0]: acc1 += 1
acc1_step(a, hit) == IF hit THEN a + 1 ELSE a

\* one iteration of `for i, batch in enumerate(val_dataset)` (lines 701-780):
\* the context draw, the scoring of the candidates (one tokenization case for
\* the item: idxes[-1] raises IndexError when the prefix is not found), the
\* ranking, the counters and the break test
EvalItem ==
    /\ im_pc = "loop"
    /\ im_i < im_args.val_size
    /\ LET ctx == context_choice(npState, im_args.train_size,
                                 effective_num_shots(im_args.num_shots))
       IN  /\ npState' = ctx.st
           /\ \/ /\ ctx.err
                 /\ im_pc' = "ValueError"
                 /\ UNCHANGED <<im_i, acc1, acc5, im_flags>>
              \/ /\ ~ctx.err
                 /\ \E case \in AlignCases :
                      /\ find_sub_list(case[1], case[2]) = <<>>
                      /\ im_pc' = "IndexError"
                      /\ UNCHANGED <<im_i, acc1, acc5, im_flags>>
              \/ /\ ~ctx.err
                 /\ \E case \in AlignCases, class_name \in Classes,
                       overall_probs \in [Classes -> ProbLevels] :
                      /\ find_sub_list(case[1], case[2]) # <<>>
                      /\ \E order \in ArgSorts(overall_probs) :
                           LET top5 == Top5Of(order)
                               hit1 == class_name = top5[1]
                               hit5 == class_name \in Range(top5)
                           IN  /\ acc1' = acc1_step(acc1, hit1)
                               /\ acc5' = IF hit5 THEN acc5 + 1 ELSE acc5
                               /\ im_flags' = Append(im_flags, hit1)
                      /\ im_i' = im_i + 1
                      /\ im_pc' = IF im_i >= im_args.num_samples - 1
                                  THEN "after" ELSE "loop"
    /\ UNCHANGED <<im_args, im_ret, pyState>>
    /\ ImagenetFrame

\* the for loop ends because val_dataset is exhausted
LoopExhausted ==
    /\ im_pc = "loop"
    /\ im_i >= im_args.val_size
    /\ im_pc' = "after"
    /\ UNCHANGED <<im_args, im_i, acc1, acc5, im_flags, im_ret, rngVars>>
    /\ ImagenetFrame

\* return float(acc1) / num_samples: the quotient is kept as <<numerator,
\* denominator>>; a zero denominator raises ZeroDivisionError
imagenet_return(a, num_samples) == <<a, num_samples>>

ReturnAccuracy ==
    /\ im_pc = "after"
    /\ IF im_args.num_samples = 0
       THEN im_pc' = "ZeroDivisionError" /\ UNCHANGED im_ret
       ELSE im_pc' = "done" /\ im_ret' = imagenet_return(acc1, im_args.num_samples)
    /\ UNCHANGED <<im_args, im_i, acc1, acc5, im_flags, rngVars>>
    /\ ImagenetFrame

ImagenetInit ==
    /\ im_pc = "loop"
    /\ \E vs \in 0..MaxVal, ns \in Budgets, sh \in {0, 1}, ts \in {1, 2} :
         im_args = [num_samples |-> ns, num_shots |-> sh,
                    val_size |-> vs, train_size |-> ts]
    /\ im_i = 0 /\ acc1 = 0 /\ acc5 = 0 /\ im_flags = <<>> /\ im_ret = <<0, 1>>
    /\ npState \in {0, 1} /\ pyState = 0
    /\ SampIdle /\ FindIdle /\ GenIdle /\ MainIdle /\ ScoreIdle

ImagenetNext ==
    \/ EvalItem
    \/ LoopExhausted
    \/ ReturnAccuracy

SpecImagenet == ImagenetInit /\ [][ImagenetNext]_vars

(* Claims about evaluate_imagenet, checked under SpecImagenet *)

NumCorrect == Cardinality({i \in 1..Len(im_flags) : im_flags[i]})

\* equality of two quotients given as <<numerator, denominator>>
RatEq(a, b) == a[1] * b[2] = b[1] * a[2]

\* C6: evaluate_imagenet returns (number of processed items whose top-1 label
\* equals the ground truth) divided by the budget when the dataset holds at
\* least budget items, and divided by the number of items in the dataset when
\* the dataset is smaller than the budget.
C6_Denominator ==
    (im_pc = "done" /\ im_args.val_size >= 1) =>
        RatEq(im_ret,
              <<NumCorrect,
                IF im_args.val_size >= im_args.num_samples
                THEN im_args.num_samples ELSE im_args.val_size>>)

\* C10: the scalar evaluate_imagenet returns is an accuracy in [0, 1] for every
\* budget, dataset size and correctness pattern: the quotient n / d returned
\* has d # 0, is not negative and is not above 1.
C10_UnitInterval ==
    im_pc = "done" =>
        /\ im_ret[2] # 0
        /\ im_ret[1] * im_ret[2] >= 0
        /\ im_ret[1] * im_ret[1] <= im_ret[2] * im_ret[2]

-----------------------------------------------------------------------------
(* The body of one iteration of evaluate_imagenet's item loop (evaluate.py  *)
(* 729-773): every candidate label is scored by one forward pass, then the  *)
(* candidates are ranked and the two counters updated.  The tokenizer and   *)
(* the forward pass are inputs.  A probability is the pair <<numerator,     *)
(* denominator>> with a positive denominator.                               *)

\* the label tables of imagenet_utils: the candidate texts in class-id order,
\* and the class id -> label dictionary built from the same list
openai_imagenet_classnames == [i \in 1..NumCandidates |-> <<"class", i - 1>>]
IMAGENET_1K_CLASS_ID_TO_LABEL ==
    [pred \in 0..(NumCandidates - 1) |-> openai_imagenet_classnames[pred + 1]]

\* tokenizer(prompt_text, add_special_tokens=False): "<image>A photo of a"
prompt_tokens == <<5, 6>>

\* the tokens of " {imagenet_class_name}": one token for the classes of even
\* id, two for the others
label_tokens(c) == IF c % 2 = 0 THEN <<10 + c>> ELSE <<10 + c, 9>>

\* tokenizer([context_text + target_text])["input_ids"] for candidate c: a
\* leading special token, one demonstration (prompt, label, end of chunk),
\* the query's prompt and the candidate's label.
\*   clean    the prompt's tokens stand in the demonstration and in the query
\*   shifted  the query's last prompt token is merged with what follows it,
\*            so that the prompt's tokens stand in the demonstration only
\*   absent   in running text the prompt is split into other tokens than
\*            alone, so that the prompt's tokens stand nowhere
TokenCases == {"clean", "shifted", "absent"}
tokenizer(case, c) ==
    CASE case = "clean"   -> <<1, 5, 6, 8, 2, 5, 6>> \o label_tokens(c)
      [] case = "shifted" -> <<1, 5, 6, 8, 2, 5, 7>> \o label_tokens(c)
      [] case = "absent"  -> <<1, 4, 6, 8, 2, 4, 6>> \o label_tokens(c)

\* the probabilities the forward pass gives to a label's first token
FirstProbs == {<<1, 2>>, <<1, 10>>}

\* gen_probs (lines 742-753): entry j is the probability of input_ids[j + 1]
\* given what precedes it; p for the first token of the label, 2/5 for its
\* second token, 1/2 for every token before the label
gen_probs_of(input_ids, c, p) ==
    LET first == Len(input_ids) - Len(label_tokens(c))
    IN  [j \in 1..(Len(input_ids) - 1) |->
            IF j = first THEN p ELSE IF j > first THEN <<2, 5>> ELSE <<1, 2>>]

RatMul(a, b) == <<a[1] * b[1], a[2] * b[2]>>
RatLeq(a, b) == a[1] * b[2] <= b[1] * a[2]

torch_prod_first(ps) == IF ps = <<>> THEN <<1, 1>> ELSE Head(ps)

\* torch.prod(input_probs)
RECURSIVE torch_prod(_)
torch_prod(ps) == IF ps = <<>> THEN <<1, 1>> ELSE RatMul(Head(ps), torch_prod(Tail(ps)))

candidate_score_default_offset(prompt, input_ids, gen_probs) ==
    LET idxes == find_sub_list(prompt, Tail(input_ids))
        from  == IF idxes = <<>> THEN 0 ELSE score_from(idxes)
    IN  [err |-> FALSE, val |-> torch_prod(Slice(gen_probs, from, Len(gen_probs)))]

\* lines 754-763 for the one sentence of the batch: input_ids[:, 1:] is
\* searched for the prompt, idxes[-1] raises IndexError when nothing matched,
\* else the score is the product of input_probs[idxes[-1] + 1 :]
candidate_score(prompt, input_ids, gen_probs) ==
    LET input_sentence == Tail(input_ids)
        idxes == find_sub_list(prompt, input_sentence)
    IN  IF idxes = <<>>
        THEN [err |-> TRUE, val |-> <<0, 1>>]
        ELSE [err |-> FALSE,
              val |-> torch_prod(Slice(gen_probs, score_from(idxes), Len(gen_probs)))]

\* np.argsort(np.array(overall_probs)[:, 0]): the class ids in an order of
\* non-decreasing score; the order of equal scores is left to the sort
RECURSIVE SortedOrders(_, _)
SortedOrders(sc, remaining) ==
    IF remaining = {} THEN {<<>>}
    ELSE UNION { {<<c>> \o rest : rest \in SortedOrders(sc, remaining \ {c})} :
                 c \in {x \in remaining :
                          \A y \in remaining : RatLeq(sc[x + 1], sc[y + 1])} }
np_argsort(sc) == SortedOrders(sc, 0..(Len(sc) - 1))

\* [IMAGENET_1K_CLASS_ID_TO_LABEL[pred] for pred in ...[::-1][:5]]
top5_labels(order) ==
    [x \in 1..Len(Top5Of(order)) |-> IMAGENET_1K_CLASS_ID_TO_LABEL[Top5Of(order)[x]]]

ScoreFrame == UNCHANGED <<rngVars, sampVars, findVars, genVars, mainVars,
                          im_pc, im_args, im_i, im_flags, im_ret>>

\* one pass of `for imagenet_class_name in openai_imagenet_classnames`
\* (lines 731-764): the text of the next candidate is tokenized, run through
\* the model and scored
ScoreClass ==
    /\ sc_pc = "classes"
    /\ Len(sc_overall) < NumCandidates
    /\ \E p \in FirstProbs :
         LET c         == Len(sc_overall)
             input_ids == tokenizer(sc_case, c)
             gen_probs == gen_probs_of(input_ids, c, p)
             r         == candidate_score(prompt_tokens, input_ids, gen_probs)
         IN  /\ sc_lang' = Append(sc_lang, input_ids)
             /\ sc_gen' = Append(sc_gen, gen_probs)
             /\ IF r.err
                THEN sc_pc' = "IndexError" /\ UNCHANGED sc_overall
                ELSE /\ sc_overall' = Append(sc_overall, r.val)
                     /\ sc_pc' = IF c + 1 = NumCandidates THEN "rank" ELSE "classes"
    /\ UNCHANGED <<sc_case, sc_class_name, sc_ranking, sc_top5, acc1, acc5>>
    /\ ScoreFrame

\* lines 766-773: the ranking, top5 and the two counters
RankItem ==
    /\ sc_pc = "rank"
    /\ \E order \in np_argsort(sc_overall) :
         /\ sc_ranking' = Reverse(order)
         /\ sc_top5' = top5_labels(order)
         /\ acc1' = acc1_step(acc1, sc_class_name = top5_labels(order)[1])
         /\ acc5' = IF sc_class_name \in Range(top5_labels(order))
                    THEN acc5 + 1 ELSE acc5
    /\ sc_pc' = "ranked"
    /\ UNCHANGED <<sc_case, sc_class_name, sc_lang, sc_gen, sc_overall>>
    /\ ScoreFrame

ScoreInit ==
    /\ sc_pc = "classes"
    /\ sc_case \in TokenCases
    /\ sc_class_name \in Range(openai_imagenet_classnames)
    /\ sc_lang = <<>> /\ sc_gen = <<>> /\ sc_overall = <<>>
    /\ sc_ranking = <<>> /\ sc_top5 = <<>>
    /\ RngIdle /\ SampIdle /\ FindIdle /\ ImIdle /\ GenIdle /\ MainIdle

ScoreNext ==
    \/ ScoreClass
    \/ RankItem

SpecScore == ScoreInit /\ [][ScoreNext]_vars

(* Claims about the scoring of one item, checked under SpecScore *)

\* C11: in the likelihood path, if the tokenized query prefix does not occur as
\* a contiguous subsequence of the tokenized full text of a candidate, no score
\* is computed for that candidate from an undefined or default offset: the
\* evaluation of the item fails with an error (IndexError), and neither a
\* ranking nor a change of the accuracy counters is produced.
C11_NoSilentScore ==
    \A i \in 1..Len(sc_lang) :
        Occurrences(prompt_tokens, sc_lang[i]) = {} =>
            /\ sc_pc = "IndexError"
            /\ Len(sc_overall) < i
            /\ sc_ranking = <<>> /\ sc_top5 = <<>>
            /\ acc1 = 0 /\ acc5 = 0

\* C11 witness: the first candidate's text was run through the model, the
\* prompt's tokens stand nowhere in it, and the item failed without a score
C11_Witness ==
    /\ sc_pc = "IndexError"
    /\ Len(sc_lang) = 1 /\ Len(sc_gen) = 1
    /\ Occurrences(prompt_tokens, sc_lang[1]) = {}
    /\ sc_overall = <<>> /\ sc_top5 = <<>>

\* the product of ps[from + 1], ..., ps[Len(ps)]
RECURSIVE RatProd(_, _)
RatProd(ps, from) ==
    IF from >= Len(ps) THEN <<1, 1>>
    ELSE RatMul(ps[from + 1], RatProd(ps, from + 1))

\* the 0-based position, in candidate c's searched text, of its first scored
\* token: the first token after the last occurrence of the prompt
FirstScored(c) ==
    LastStart(prompt_tokens, Tail(sc_lang[c])) + Len(prompt_tokens)

\* C13: for an evaluated item, every candidate's score is the product of the
\* conditional probabilities of its scored tokens; the ranking lists all the
\* candidates in non-increasing score order; top5 holds the labels of the
\* first five entries of the ranking; the top-1 label is a candidate of
\* maximal score; the item counts as top-1 correct exactly when its
\* ground-truth label equals the first entry, and as top-5 correct exactly
\* when that label is among the first five entries.
C13_Ranking ==
    sc_pc = "ranked" =>
        /\ Len(sc_overall) = NumCandidates
        /\ \A c \in 1..NumCandidates :
             RatEq(sc_overall[c], RatProd(sc_gen[c], FirstScored(c)))
        /\ Len(sc_ranking) = NumCandidates
        /\ Range(sc_ranking) = 0..(NumCandidates - 1)
        /\ \A i, j \in 1..NumCandidates :
             i < j => RatLeq(sc_overall[sc_ranking[j] + 1],
                             sc_overall[sc_ranking[i] + 1])
        /\ Len(sc_top5) = Min(TopK, NumCandidates)
        /\ \A x \in 1..Len(sc_top5) :
             sc_top5[x] = openai_imagenet_classnames[sc_ranking[x] + 1]
        /\ \A c \in 1..NumCandidates :
             RatLeq(sc_overall[c], sc_overall[sc_ranking[1] + 1])
        /\ acc1 = (IF sc_class_name = sc_top5[1] THEN 1 ELSE 0)
        /\ acc5 = (IF sc_class_name \in Range(sc_top5) THEN 1 ELSE 0)

\* C13 witness: an item with more candidates than five was ranked; the
\* two-token label of class 1, of token probabilities 1/2 and 2/5, scored 1/5
\* and stands above class 2, which scored 1/10; the ground-truth label is the
\* one candidate left out of top5, so the item counts for neither counter
C13_Witness ==
    /\ sc_pc = "ranked" /\ sc_case = "clean"
    /\ NumCandidates > TopK /\ Len(sc_top5) = TopK
    /\ sc_overall[2] = <<2, 10>> /\ sc_overall[3] = <<1, 10>>
    /\ \E i, j \in 1..TopK : i < j /\ sc_ranking[i] = 1 /\ sc_ranking[j] = 2
    /\ sc_class_name = openai_imagenet_classnames[sc_ranking[NumCandidates] + 1]
    /\ sc_class_name \notin Range(sc_top5)
    /\ acc1 = 0 /\ acc5 = 0

-----------------------------------------------------------------------------
(* main (evaluate.py 210-330): seed extension, then for each enabled task,  *)
(* in the order of the source, the sweep over shots and trial seeds.        *)
(*   args    the parsed arguments main reads and (trial_seeds) extends       *)
(*   seeds0  args.trial_seeds as given on the command line                   *)
(*   cur     position of the sweep: task block, index into shots, trial      *)
(*   scores  the list `scores` of the current shot                           *)
(*   results the dict `results`, a missing key read as []                    *)
(*   calls   the evaluate_* invocations made so far, <<task, shot, seed>>    *)
(*   failed  0, or the position in calls of the invocation that raised       *)

TaskOrder == <<"flickr30", "coco", "ok_vqa", "vqav2", "imagenet">>
Tasks == Range(TaskOrder)
ShotValues == {0, 4}
RandInts == {0, 1000000}

\* the scalar an evaluate_* call returns for (task, shot, seed): decided by the
\* model and the metric, here a fixed table that tells the trials apart
trial_score(t, shot, seed) == (7 * t + shot + seed) % 11

extend_seeds_replacing(trial_seeds, num_trials, fresh) ==
    IF Len(trial_seeds) < num_trials THEN fresh \o trial_seeds ELSE trial_seeds

\* args.trial_seeds.extend([random.randint(0, 1000000) for _ in range(...)])
\* under `if len(args.trial_seeds) < args.num_trials`
extend_seeds(trial_seeds, num_trials, fresh) ==
    IF Len(trial_seeds) < num_trials THEN trial_seeds \o fresh ELSE trial_seeds

zip_len_all_seeds(trial_seeds, num_trials) == Len(trial_seeds)

\* length of zip(args.trial_seeds, range(args.num_trials))
zip_len(trial_seeds, num_trials) == Min(Len(trial_seeds), Max(0, num_trials))

\* np.mean(scores) as <<sum, count>>; <<0, 0>> is the nan of an empty list
np_mean(sc) == <<SeqSum(sc), Len(sc)>>

\* {"shots": shot, "trials": scores, "mean": np.mean(scores)}
shot_record(shot, sc) == [shots |-> shot, trials |-> sc, mean |-> np_mean(sc)]

MainFrame == UNCHANGED <<rngVars, sampVars, findVars, imVars, scoreVars, genVars>>

\* lines 215-226
ExtendSeeds ==
    /\ m_pc = "start"
    /\ \E fresh \in [1..Max(0, args.num_trials - Len(args.trial_seeds)) -> RandInts] :
         args' = [args EXCEPT
                    !.trial_seeds = extend_seeds(@, args.num_trials, fresh)]
    /\ m_pc' = "sweep"
    /\ cur' = [task |-> 1, shot |-> 1, trial |-> 1]
    /\ UNCHANGED <<seeds0, scores, results, calls, failed>>
    /\ MainFrame

InBlock == m_pc = "sweep" /\ cur.task <= Len(TaskOrder)
BlockEnabled == InBlock /\ TaskOrder[cur.task] \in args.enabled

\* `if args.eval_<task>:` is false
SkipTask ==
    /\ InBlock /\ ~BlockEnabled
    /\ cur' = [task |-> cur.task + 1, shot |-> 1, trial |-> 1]
    /\ UNCHANGED <<m_pc, args, seeds0, scores, results, calls, failed>>
    /\ MainFrame

\* one pass of the inner loop: the evaluate_* call returns a score, which is
\* appended to scores, or raises, which nothing in main catches
RunTrial ==
    /\ BlockEnabled
    /\ cur.shot <= Len(args.shots)
    /\ cur.trial <= zip_len(args.trial_seeds, args.num_trials)
    /\ LET shot == args.shots[cur.shot]
           seed == args.trial_seeds[cur.trial]
       IN  /\ calls' = Append(calls, <<TaskOrder[cur.task], shot, seed>>)
           /\ \/ /\ scores' = Append(scores, trial_score(cur.task, shot, seed))
                 /\ cur' = [cur EXCEPT !.trial = @ + 1]
                 /\ UNCHANGED <<m_pc, failed>>
              \/ /\ m_pc' = "aborted"
                 /\ failed' = Len(calls) + 1
                 /\ UNCHANGED <<scores, cur>>
    /\ UNCHANGED <<args, seeds0, results>>
    /\ MainFrame

\* the inner loop is over: results[task].append({...}); the next pass of the
\* shot loop starts from scores = []
FinishShot ==
    /\ BlockEnabled
    /\ cur.shot <= Len(args.shots)
    /\ cur.trial > zip_len(args.trial_seeds, args.num_trials)
    /\ results' = [results EXCEPT ![TaskOrder[cur.task]] =
                       Append(@, shot_record(args.shots[cur.shot], scores))]
    /\ scores' = <<>>
    /\ cur' = [cur EXCEPT !.shot = @ + 1, !.trial = 1]
    /\ UNCHANGED <<m_pc, args, seeds0, calls, failed>>
    /\ MainFrame

\* the shot loop of the block is over
FinishTask ==
    /\ BlockEnabled
    /\ cur.shot > Len(args.shots)
    /\ cur' = [task |-> cur.task + 1, shot |-> 1, trial |-> 1]
    /\ UNCHANGED <<m_pc, args, seeds0, scores, results, calls, failed>>
    /\ MainFrame

\* lines 328-330: all blocks passed, results are written
SaveResults ==
    /\ m_pc = "sweep" /\ cur.task > Len(TaskOrder)
    /\ m_pc' = "done"
    /\ UNCHANGED <<args, seeds0, cur, scores, results, calls, failed>>
    /\ MainFrame

MainInit ==
    /\ m_pc = "start"
    /\ \E en \in {e \in SUBSET Tasks : Cardinality(e) <= MaxEnabled},
          sh \in (SeqsUpTo(ShotValues, MaxShots) \ {<<>>}),
          nt \in 0..MaxTrials,
          ts \in (SeqsUpTo(Seeds, MaxSeeds) \ {<<>>}) :
         /\ args = [enabled |-> en, shots |-> sh, num_trials |-> nt, trial_seeds |-> ts]
         /\ seeds0 = ts
    /\ cur = [task |-> 0, shot |-> 0, trial |-> 0]
    /\ scores = <<>>
    /\ results = [t \in Tasks |-> <<>>]
    /\ calls = <<>>
    /\ failed = 0
    /\ RngIdle /\ SampIdle /\ FindIdle /\ ImIdle /\ GenIdle /\ ScoreIdle

MainNext ==
    \/ ExtendSeeds
    \/ SkipTask
    \/ RunTrial
    \/ FinishShot
    \/ FinishTask
    \/ SaveResults

SpecMain == MainInit /\ [][MainNext]_vars

(* Claims about main, checked under SpecMain *)

\* C7: after the seed extension the seed list has length
\* max(original length, num_trials), the seeds given are an unchanged prefix of
\* it, and a list that already had num_trials seeds is left as it was.
C7_SeedsExtended ==
    m_pc # "start" =>
        /\ Len(args.trial_seeds) = Max(Len(seeds0), args.num_trials)
        /\ IsPrefix(seeds0, args.trial_seeds)
        /\ (Len(seeds0) >= args.num_trials => args.trial_seeds = seeds0)

\* C7 witness: num_trials = 3 with one seed given: three seeds, the first unchanged
C7_Witness ==
    /\ m_pc # "start"
    /\ args.num_trials = 3 /\ Len(seeds0) = 1
    /\ Len(args.trial_seeds) = 3 /\ args.trial_seeds[1] = seeds0[1]
    /\ args.trial_seeds[2] # seeds0[1]

EnabledSeq == SelectSeq(TaskOrder, LAMBDA t : t \in args.enabled)
TaskIndex(t) == CHOOSE i \in 1..Len(TaskOrder) : TaskOrder[i] = t
NumTrials == Max(0, args.num_trials)

\* the invocations in the claimed order: tasks in source order, outer over the
\* shots as configured, inner over the first num_trials seeds
ExpectedCalls ==
    [k \in 1..(Len(EnabledSeq) * Len(args.shots) * NumTrials) |->
        LET z == k - 1
        IN  << EnabledSeq[(z \div (Len(args.shots) * NumTrials)) + 1],
               args.shots[((z \div NumTrials) % Len(args.shots)) + 1],
               args.trial_seeds[(z % NumTrials) + 1] >>]

ExpectedTrials(t, shot) ==
    [i \in 1..NumTrials |-> trial_score(TaskIndex(t), shot, args.trial_seeds[i])]

\* C8: each enabled task's evaluation is invoked once per (shot, i-th seed),
\* i < num_trials, outer over the shots as configured, inner over the seeds in
\* list order, seeds beyond num_trials ignored; at the end results holds, per
\* enabled task, one record per configured shot in that order, with exactly the
\* num_trials scores in seed order and their arithmetic mean.
C8_SweepOrder ==
    m_pc # "start" =>
        /\ IsPrefix(calls, ExpectedCalls)
        /\ m_pc = "done" =>
             /\ calls = ExpectedCalls
             /\ \A t \in Tasks :
                  /\ Len(results[t]) = IF t \in args.enabled THEN Len(args.shots) ELSE 0
                  /\ \A j \in 1..Len(results[t]) :
                       /\ results[t][j].shots = args.shots[j]
                       /\ results[t][j].trials = ExpectedTrials(t, args.shots[j])
                       /\ results[t][j].mean[1] = SeqSum(results[t][j].trials)
                       /\ results[t][j].mean[2] = NumTrials

\* C8 witness: a finished sweep of two tasks over shots 4 then 0 and two
\* different seeds: eight invocations, two records of two scores per task
C8_Witness ==
    /\ m_pc = "done"
    /\ Cardinality(args.enabled) = 2
    /\ args.shots = <<4, 0>>
    /\ args.num_trials = 2 /\ args.trial_seeds = <<42, 7>>
    /\ Len(calls) = 8
    /\ \A t \in args.enabled : Len(results[t]) = 2 /\ Len(results[t][1].trials) = 2

\* C9: when one trial fails only that trial is aborted: once main has stopped,
\* every other (task, shot, seed) trial has run and its score is in results.
C9_OtherTrialsUnaffected ==
    (failed # 0 /\ m_pc \notin {"start", "sweep"}) =>
        \A k \in (1..Len(ExpectedCalls)) \ {failed} :
            LET z == k - 1
                t == EnabledSeq[(z \div (Len(args.shots) * NumTrials)) + 1]
                j == ((z \div NumTrials) % Len(args.shots)) + 1
                i == (z % NumTrials) + 1
            IN  /\ j <= Len(results[t])
                /\ i <= Len(results[t][j].trials)
                /\ results[t][j].trials[i] =
                       trial_score(TaskIndex(t), args.shots[j], args.trial_seeds[i])

-----------------------------------------------------------------------------
(* Generation path: evaluate_captioning (420-496) and evaluate_vqa          *)
(* (564-633) up to the records written for the scorer; the model's          *)
(* generation is an input.  A text is the sequence of its                   *)
(* pieces: the image placeholder, the end-of-example marker, the template   *)
(* words and the words of captions, questions and answers; str.replace of   *)
(* the placeholder removes the placeholder pieces.                          *)

IMG == "<image>"
EOC == "<|endofchunk|>"
WS  == " "

\* the training split: one caption padded with whitespace, one whose text
\* holds the placeholder literally
TrainData ==
    << [image |-> "t0", caption |-> <<WS, "a", "cat", WS>>,
        question |-> <<"what">>, answers |-> << <<"cat">>, <<"kitty">> >>],
       [image |-> "t1", caption |-> <<"a", IMG, "tag">>,
        question |-> <<"which">>, answers |-> << <<"tag">> >>],
       [image |-> "t2", caption |-> <<"dog">>,
        question |-> <<"who">>, answers |-> << <<"dog">>, <<"a", "dog">> >>] >>

\* the test split; its first and last items carry the same identifiers
TestData ==
    << [image |-> "q0", question |-> <<"where">>,
        image_id |-> 100, question_id |-> 100],
       [image |-> "q1", question |-> <<"is", IMG, "here">>,
        image_id |-> 101, question_id |-> 101],
       [image |-> "q2", question |-> <<"why">>,
        image_id |-> 100, question_id |-> 100] >>

\* str.strip(): leading and trailing whitespace removed
RECURSIVE LStrip(_)
LStrip(t) == IF t # <<>> /\ Head(t) = WS THEN LStrip(Tail(t)) ELSE t
Strip(t) == Reverse(LStrip(Reverse(LStrip(t))))

\* text.replace("<image>", "")
RemoveImageTags(t) == SelectSeq(t, LAMBDA x : x # IMG)

RECURSIVE Join(_)
Join(parts) == IF parts = <<>> THEN <<>> ELSE Head(parts) \o Join(Tail(parts))

\* eval_model.caption_prompt(caption=...) / eval_model.caption_prompt(): the
\* template with the placeholder, the reference text and the end-of-example
\* marker, and the same template with the answer portion left out
caption_prompt(caption) == <<IMG, "Output:">> \o caption \o <<EOC>>
caption_prompt_query == <<IMG, "Output:">>

\* eval_model.vqa_prompt(question=..., answer=...) / vqa_prompt(question=...)
vqa_prompt(question, answer) ==
    <<IMG, "Question:">> \o question \o <<"Short answer:">> \o answer \o <<EOC>>
vqa_prompt_query(question) == <<IMG, "Question:">> \o question \o <<"Short answer:">>

\* the demonstration's formatted context string (lines 454, 593-595)
demo_prompt(task, d) ==
    IF task = "caption"
    THEN caption_prompt(Strip(TrainData[d + 1].caption))
    ELSE vqa_prompt(TrainData[d + 1].question, TrainData[d + 1].answers[1])

\* the query's formatted template (lines 463, 605)
query_prompt(task, q) ==
    IF task = "caption" THEN caption_prompt_query
    ELSE vqa_prompt_query(TestData[q + 1].question)

\* lines 446-450 / 585-589: batch_images entry of one item
assemble_images(num_shots, demos, q) ==
    LET context_images == IF num_shots > 0
                          THEN [x \in 1..Len(demos) |-> TrainData[demos[x] + 1].image]
                          ELSE <<>>
    IN  context_images \o <<TestData[q + 1].image>>

assemble_text_tags_kept(task, num_shots, demos, q) ==
    Join([x \in 1..Len(demos) |-> demo_prompt(task, demos[x])]) \o query_prompt(task, q)

\* lines 452-463 / 591-606: batch_text entry of one item
assemble_text(task, num_shots, demos, q) ==
    LET joined == Join([x \in 1..Len(demos) |-> demo_prompt(task, demos[x])])
        context_text == IF num_shots = 0 THEN RemoveImageTags(joined) ELSE joined
    IN  context_text \o query_prompt(task, q)

\* the post-processed generation of the model for test item q (lines 465-475,
\* 608-622): a text that names the item it was generated for
new_prediction(q) == <<"generated", q>>

\* predictions[key] = value on a dict: the value of a key already present is
\* replaced in place, a new key is added last
dict_set(dct, key, value) ==
    IF \E x \in 1..Len(dct) : dct[x].id = key
    THEN [x \in 1..Len(dct) |->
            IF dct[x].id = key THEN [id |-> key, out |-> value] ELSE dct[x]]
    ELSE Append(dct, [id |-> key, out |-> value])

\* lines 479-482 of evaluate_captioning: for i, sample in enumerate(batch):
\* predictions[sample["image_id"]] = {"caption": new_predictions[i]}
RECURSIVE record_captions(_, _)
record_captions(preds, batch) ==
    IF batch = <<>> THEN preds
    ELSE record_captions(
             dict_set(preds, TestData[Head(batch) + 1].image_id,
                      new_prediction(Head(batch))),
             Tail(batch))

\* lines 624-629 of evaluate_vqa: predictions.extend([{"answer": p,
\* "question_id": sample["question_id"]} for p, sample in zip(..., batch)])
record_answers(preds, batch) ==
    preds \o [x \in 1..Len(batch) |->
                [id |-> TestData[batch[x] + 1].question_id,
                 out |-> new_prediction(batch[x])]]

record_predictions(task, preds, batch) ==
    IF task = "caption" THEN record_captions(preds, batch)
    ELSE record_answers(preds, batch)

GenFrame == UNCHANGED <<sampVars, findVars, imVars, scoreVars, mainVars>>

\* lines 420-430 / 564-573: the evaluation subset and the query pool are drawn;
\* either draw raises ValueError when it asks for more than the split holds
DrawSubsets ==
    /\ g_pc = "start"
    /\ LET ev == prepare_eval_samples(
                     npState, Len(TestData),
                     IF g_args.num_samples > 0 THEN g_args.num_samples
                     ELSE Len(TestData),
                     g_args.seed)
           qs == get_query_set(ev.st, Len(TrainData), g_args.query_set_size,
                               g_args.seed)
       IN  IF ev.err
           THEN /\ g_pc' = "ValueError" /\ npState' = ev.st
                /\ UNCHANGED <<test_subset, in_context_samples>>
           ELSE IF qs.err
           THEN /\ g_pc' = "ValueError" /\ npState' = qs.st
                /\ UNCHANGED <<test_subset, in_context_samples>>
           ELSE /\ g_pc' = "batches" /\ npState' = qs.st
                /\ test_subset' = ev.val
                /\ in_context_samples' = qs.val
    /\ UNCHANGED <<pyState, g_args, g_pos, batch_demo_samples, batch_images,
                   batch_text, predictions, results_file>>
    /\ GenFrame

\* one pass of the batch loop, lines 438-482 / 575-629: the demonstrations of
\* the batch are sampled, the images and text of every item are assembled, and
\* the generation of every item is recorded
AssembleBatch ==
    /\ g_pc = "batches"
    /\ g_pos < Len(test_subset)
    /\ LET batch == Slice(test_subset, g_pos, g_pos + g_args.batch_size)
           demos == sample_batch_demos_from_query_set(
                        pyState, in_context_samples,
                        effective_num_shots(g_args.num_shots), Len(batch))
       IN  IF demos.err
           THEN /\ g_pc' = "ValueError"
                /\ UNCHANGED <<pyState, g_pos, batch_demo_samples, batch_images,
                               batch_text, predictions>>
           ELSE /\ pyState' = demos.st
                /\ batch_demo_samples' = demos.val
                /\ batch_images' =
                     [i \in 1..Len(batch) |->
                        assemble_images(g_args.num_shots, demos.val[i], batch[i])]
                /\ batch_text' =
                     [i \in 1..Len(batch) |->
                        assemble_text(g_args.task, g_args.num_shots, demos.val[i],
                                      batch[i])]
                /\ predictions' = record_predictions(g_args.task, predictions, batch)
                /\ g_pos' = g_pos + Len(batch)
                /\ UNCHANGED g_pc
    /\ UNCHANGED <<npState, g_args, test_subset, in_context_samples, results_file>>
    /\ GenFrame

\* the batch loop is over: the records are written for the scorer (lines
\* 484-496: one record per key of the dict; lines 630-633: the list as it is)
BatchesDone ==
    /\ g_pc = "batches"
    /\ g_pos >= Len(test_subset)
    /\ g_pc' = "scoring"
    /\ results_file' = predictions
    /\ UNCHANGED <<rngVars, g_args, g_pos, test_subset, in_context_samples,
                   batch_demo_samples, batch_images, batch_text, predictions>>
    /\ GenFrame

GenInit ==
    /\ g_pc = "start"
    /\ \E task \in {"caption", "vqa"}, sh \in 0..(MaxData - 1),
          ns \in {0, 2, Len(TestData) + 1}, qs \in 1..(Len(TrainData) + 1),
          bs \in 1..MaxBatch, seed \in Seeds :
         g_args = [task |-> task, num_shots |-> sh, num_samples |-> ns,
                   query_set_size |-> qs, batch_size |-> bs, seed |-> seed]
    /\ g_pos = 0 /\ test_subset = <<>> /\ in_context_samples = <<>>
    /\ batch_demo_samples = <<>> /\ batch_images = <<>> /\ batch_text = <<>>
    /\ predictions = <<>> /\ results_file = <<>>
    /\ npState = 0 /\ pyState \in 0..(RngMod - 1)
    /\ SampIdle /\ FindIdle /\ ImIdle /\ MainIdle /\ ScoreIdle

GenNext ==
    \/ DrawSubsets
    \/ AssembleBatch
    \/ BatchesDone

SpecGen == GenInit /\ [][GenNext]_vars

(* Claims about the prompt assembly, checked under SpecGen *)

CountOf(t, x) == Len(SelectSeq(t, LAMBDA y : y = x))
ContainsSub(t, sub) == Occurrences(sub, t) # {}

\* the items of the batch assembled last
CurBatch == Slice(test_subset, g_pos - Len(batch_text), g_pos)

\* reference text of a demonstration: its stripped caption, or its first answer
RefText(task, d) ==
    IF task = "caption" THEN Strip(TrainData[d + 1].caption)
    ELSE TrainData[d + 1].answers[1]

ZeroShotBatch == g_args.num_shots = 0 /\ batch_text # <<>>

\* C4 as stated: with requested shots = 0 every assembled prompt has an image
\* sequence of length 1 and a text with zero occurrences of the image
\* placeholder, while the text still contains the reference text and the
\* end-of-example marker of each of the 2 sampled demonstrations.
C4_NoPlaceholderInText ==
    ZeroShotBatch =>
        \A i \in 1..Len(batch_text) :
            /\ Len(batch_images[i]) = 1
            /\ CountOf(batch_text[i], IMG) = 0
            /\ Len(batch_demo_samples[i]) = 2
            /\ \A x \in 1..Len(batch_demo_samples[i]) :
                 ContainsSub(batch_text[i],
                             RefText(g_args.task, batch_demo_samples[i][x]) \o <<EOC>>)

\* C4 amended: with requested shots = 0 every assembled prompt has an image
\* sequence holding the query image only, and a text made of a demonstration
\* part followed by the query's template; the demonstration part has zero
\* occurrences of the image placeholder, so the placeholders of the text are
\* those of the query's template (one at its start); the demonstration part
\* has the two end-of-example markers and, for each of the 2 sampled
\* demonstrations, its reference text, less any placeholder written inside it,
\* followed by the marker.
C4_ZeroShotPrompt ==
    ZeroShotBatch =>
        \A i \in 1..Len(batch_text) :
            LET q    == CurBatch[i]
                text == batch_text[i]
                qp   == query_prompt(g_args.task, q)
                ctx  == Slice(text, 0, Len(text) - Len(qp))
            IN  /\ batch_images[i] = <<TestData[q + 1].image>>
                /\ text = ctx \o qp
                /\ CountOf(ctx, IMG) = 0
                /\ CountOf(text, IMG) = CountOf(qp, IMG)
                /\ text[Len(ctx) + 1] = IMG
                /\ Len(batch_demo_samples[i]) = 2
                /\ CountOf(ctx, EOC) = 2
                /\ \A x \in 1..Len(batch_demo_samples[i]) :
                     ContainsSub(ctx,
                         RemoveImageTags(RefText(g_args.task, batch_demo_samples[i][x]))
                         \o <<EOC>>)

\* C4 witness: a zero-shot captioning batch of two prompts, each with one image
\* and one placeholder, whose demonstrations include the caption that holds
\* the placeholder literally
C4_Witness ==
    /\ ZeroShotBatch /\ g_args.task = "caption"
    /\ Len(batch_text) = 2
    /\ \A i \in 1..2 : Len(batch_images[i]) = 1 /\ CountOf(batch_text[i], IMG) = 1
    /\ 1 \in Range(batch_demo_samples[1])
    /\ CountOf(batch_text[1], EOC) = 2

\* the identifier of test item q: its image id for captioning, its question id
\* for VQA
SampleId(task, q) ==
    IF task = "caption" THEN TestData[q + 1].image_id ELSE TestData[q + 1].question_id

\* the position in the evaluation subset of the last item carrying identifier k
LastWith(task, k) ==
    SetMax({x \in 1..Len(test_subset) : SampleId(task, test_subset[x]) = k})

\* C12: within one generation run, for captioning and for VQA, the records
\* handed to the scorer hold at most one record per sample identifier, every
\* identifier of the evaluation subset has its record, and the record of an
\* identifier carries the output of the item processed last among the items
\* with that identifier, batches being processed in evaluation-subset order.
C12_LastWriteWins ==
    g_pc = "scoring" =>
        /\ \A x, y \in 1..Len(results_file) :
             x # y => results_file[x].id # results_file[y].id
        /\ {results_file[x].id : x \in 1..Len(results_file)} =
             {SampleId(g_args.task, test_subset[x]) : x \in 1..Len(test_subset)}
        /\ \A x \in 1..Len(results_file) :
             results_file[x].out =
                 new_prediction(test_subset[LastWith(g_args.task, results_file[x].id)])

\* the shot count the selector is asked for: the requested one, 2 when the
\* requested one is 0
ClampedShots == IF g_args.num_shots = 0 THEN 2 ELSE g_args.num_shots

\* C14: for every batch of the generation path the demonstration selector
\* returns exactly one demonstration set per batch item, each made of k
\* pairwise-distinct samples of the query pool, k being the requested shot
\* count, or 2 when 0 shots are requested; a run whose k exceeds the size of
\* the query pool fails at its first batch (ValueError) and returns no
\* demonstration set, shorter or repeated, and no prediction.
C14_DemoSets ==
    /\ batch_demo_samples # <<>> =>
          /\ ClampedShots <= Len(in_context_samples)
          /\ Len(batch_demo_samples) = Len(CurBatch)
          /\ \A i \in 1..Len(batch_demo_samples) :
                /\ Len(batch_demo_samples[i]) = ClampedShots
                /\ Range(batch_demo_samples[i]) \subseteq Range(in_context_samples)
                /\ \A x, y \in 1..ClampedShots :
                      x # y => batch_demo_samples[i][x] # batch_demo_samples[i][y]
    /\ (g_pos > 0 \/ g_pc = "scoring") => batch_demo_samples # <<>> \/ test_subset = <<>>
    /\ (test_subset # <<>> /\ ClampedShots > Len(in_context_samples)) =>
          /\ g_pc \in {"batches", "ValueError"}
          /\ g_pos = 0
          /\ batch_demo_samples = <<>> /\ predictions = <<>>

\* C14 witness: zero shots requested, a query pool of 3 samples and a batch of
\* 2 items: two sets of 2 distinct samples each, not the same set
C14_Witness ==
    /\ g_args.num_shots = 0 /\ Len(in_context_samples) = 3
    /\ Len(CurBatch) = 2 /\ Len(batch_demo_samples) = 2
    /\ \A i \in 1..2 : Cardinality(Range(batch_demo_samples[i])) = 2
    /\ batch_demo_samples[1] # batch_demo_samples[2]

\* C14 witness of the failure: a pool of 1 sample, 2 shots, the first batch
\* raised
C14_FailureReached ==
    /\ g_pc = "ValueError" /\ test_subset # <<>>
    /\ Len(in_context_samples) = 1 /\ ClampedShots = 2
    /\ batch_demo_samples = <<>>

====
